---- MODULE Spec2Model ----
(***************************************************************************)
(* Model of examples/nanoChatGPT/models/reward.py: the RewardModel adapter *)
(* (head replacement over a cloned transformer body) and the factory       *)
(* init_reward_model (dispatch on init_reward_from, optional crop, device  *)
(* placement, compilation, TensorDictModule wrapping).                     *)
(*                                                                         *)
(* Tensors are records [shape, data] with data a nested sequence; weights  *)
(* and token ids are small naturals.  Python objects that can be shared    *)
(* (transformer bodies) live in `heap` and are referred to by address.     *)
(***************************************************************************)
EXTENDS Integers, Sequences, FiniteSets, TLC

\* ------------------------------------------------------------------ bounds
MaxWeight == 1          \* parameters take values in 0..MaxWeight
VocabSize == 2          \* token ids are 0..VocabSize-1, lm_head has VocabSize units
MaxBatch == 2           \* input batches have 1..MaxBatch rows
MaxSeq == 3             \* input sequences have 1..MaxSeq tokens
MaxPositions == 3       \* n_positions of a pretrained model is 2..MaxPositions
MaxEmbd == 2            \* hidden width n_embd is 1..MaxEmbd

Weights == 0..MaxWeight
Tokens == 0..(VocabSize - 1)
Addr == 1..2
Modes == {"scratch", "resume", "pretrained", "Scratch"}
Devices == {"cpu", "cuda"}

Null == [kind |-> "null"]
NoError == [type |-> "none", arg |-> ""]

VARIABLES
    config,       \* the mapping passed to init_reward_model
    pc,           \* position inside init_reward_model / after its return
    model,        \* the local variable `model` of init_reward_model
    heap,         \* transformer bodies by address (shared mutable objects)
    source,       \* the language model handed to RewardModel.__init__
    reward,       \* the RewardModel instance
    n_positions,  \* model.config.n_positions (the config object is shared)
    calls,        \* delegated calls performed so far, in order
    raised,       \* the exception that left init_reward_model
    input_ids,    \* the last batch scored
    out           \* the result of the last scoring call

vars == <<config, pc, model, heap, source, reward, n_positions, calls,
          raised, input_ids, out>>

\* ------------------------------------------------------------ tensor maths
RECURSIVE PrefixSum(_, _)
PrefixSum(row, i) == IF i = 0 THEN 0 ELSE row[i] + PrefixSum(row, i - 1)

RECURSIVE SumSeq(_)
SumSeq(s) == IF s = <<>> THEN 0 ELSE Head(s) + SumSeq(Tail(s))

\* nn.Linear(in_features, out_features, bias=False) with a given weight
Linear(in_f, out_f, w) ==
    [kind |-> "Linear", in_features |-> in_f, out_features |-> out_f,
     bias |-> FALSE, weight |-> w]

\* weight matrices out_f x in_f used as inputs: every row constant
LinearWeights(in_f, out_f) ==
    { [o \in 1..out_f |-> [k \in 1..in_f |-> r[o]]] : r \in [1..out_f -> Weights] }

\* a causal transformer body: position i sees tokens 1..i; the positional
\* table wpe has t.wpe rows, so longer inputs are an index error
TransformerOk(t, ids) == ids.shape[2] <= t.wpe

TransformerForward(t, ids) ==
    [shape |-> <<ids.shape[1], ids.shape[2], t.n_embd>>,
     data |-> [b \in 1..ids.shape[1] |->
                [i \in 1..ids.shape[2] |->
                  [k \in 1..t.n_embd |-> t.w + PrefixSum(ids.data[b], i)]]]]

\* y = x W^T over the last dimension
LinearForward(lin, x) ==
    [shape |-> <<x.shape[1], x.shape[2], lin.out_features>>,
     data |-> [b \in 1..x.shape[1] |->
                [i \in 1..x.shape[2] |->
                  [o \in 1..lin.out_features |->
                    SumSeq([k \in 1..lin.in_features |->
                              lin.weight[o][k] * x.data[b][i][k]])]]]]

\* logits[:, -1, :]
SelectLast(x) ==
    [shape |-> <<x.shape[1], x.shape[3]>>,
     data |-> [b \in 1..x.shape[1] |-> x.data[b][x.shape[2]]]]

\* input batches of token ids of shape (b, n)
Batches(b, n) ==
    { [shape |-> <<b, n>>, data |-> d] : d \in [1..b -> [1..n -> Tokens]] }

\* ----------------------------------------------------------------- objects
\* attribute lookup of `obj.forward`: an entry in the instance dictionary
\* shadows the method of the class
GetForward(obj, name) ==
    IF obj.instance_forward # Null
    THEN obj.instance_forward
    ELSE [cls |-> obj.kind, self |-> name]

\* a shallow copy: the same transformer body under the same address
deepcopy_alias(h, a) == a

\* deepcopy(model.transformer): the address of the copy
deepcopy(h, a) == CHOOSE c \in Addr : h[c] = Null

\* RewardModel.__init__(self, model); w0 is the fresh head's initial weight
RewardModelInit(m, h, np, w0) ==
    LET c == deepcopy(h, m.transformer) IN
    [obj |-> [kind |-> "RewardModel",
              transformer |-> c,
              block_size |-> np,
              lm_head |-> Linear(m.lm_head.in_features, 1, w0),
              model_parallel |-> FALSE,
              device_map |-> "None",
              instance_forward |-> GetForward(m, "source"),
              device |-> "unplaced"],
     heap |-> [h EXCEPT ![c] = h[m.transformer]]]

\* RewardModel.forward(self, input_ids)
RewardModel_forward(self, h, ids) ==
    LET transformer_outputs == TransformerForward(h[self.transformer], ids)
        hidden_states == transformer_outputs
        logits == LinearForward(self.lm_head, hidden_states)
    IN SelectLast(logits)

\* forward of the language model RewardModel.__init__ was given
LMHead_forward(self, h, ids) ==
    LinearForward(self.lm_head, TransformerForward(h[self.transformer], ids))

\* nn.Module.__call__ on the RewardModel rm built from src: runs whatever
\* `rm.forward` evaluates to, on the object that method is bound to
CallModule(rm, src, h, ids) ==
    LET f == GetForward(rm, "reward")
        self == IF f.self = "source" THEN src ELSE rm
    IN IF ~TransformerOk(h[self.transformer], ids)
       THEN [error |-> "IndexError", value |-> Null]
       ELSE [error |-> "none",
             value |-> IF f.cls = "RewardModel"
                       THEN RewardModel_forward(self, h, ids)
                       ELSE LMHead_forward(self, h, ids)]

\* a pretrained GPT-2 style language model over a fresh transformer body
LanguageModel(a, w) ==
    [kind |-> "GPT2LMHeadModel", transformer |-> a,
     lm_head |-> Linear(Len(w[1]), VocabSize, w), instance_forward |-> Null]

Body(w, np, e) == [kind |-> "GPT2Model", w |-> w, wpe |-> np, n_embd |-> e]

\* ---------------------------------------------------------------- factory
model_kwargs ==
    [resid_pdrop |-> config.dropout, embd_pdrop |-> config.dropout,
     attn_pdrop |-> config.dropout]

Configs ==
    [init_reward_from : Modes, block_size : 1..MaxPositions, device : Devices,
     dropout : {0}, out_dir_reward : {"out"}]

Init ==
    /\ config \in Configs
    /\ pc = "start"
    /\ model = Null
    /\ heap = [a \in Addr |-> Null]
    /\ source = Null
    /\ reward = Null
    /\ n_positions = 0
    /\ calls = <<>>
    /\ raised = NoError
    /\ input_ids = Null
    /\ out = Null

\* the test for "scratch" dropped: everything but "resume" builds from scratch
BranchDefaultScratch(mode) ==
    IF mode = "resume" THEN "resume" ELSE "scratch"

\* the elif turned into a plain else: everything but "scratch" resumes
BranchElifAsElse(mode) ==
    IF mode = "scratch" THEN "scratch" ELSE "resume"

\* lines 49-57: the if / elif / else on config["init_reward_from"]
Branch(mode) ==
    IF mode = "scratch" THEN "scratch"
    ELSE IF mode = "resume" THEN "resume"
    ELSE "error"

\* compilation moved in front of device placement
StepAfterCompileFirst(step) ==
    CASE step = "crop" -> "compile"
      [] step = "compile" -> "to"
      [] step = "to" -> "wrap"
      [] step = "wrap" -> "returned"

\* the order of the steps after the model is built
StepAfter(step) ==
    CASE step = "crop" -> "to"
      [] step = "to" -> "compile"
      [] step = "compile" -> "wrap"
      [] step = "wrap" -> "returned"

\* the delegated call's exception caught and re-raised as a ValueError
FailWrapped(call, e) ==
    /\ calls' = Append(calls, call)
    /\ raised' = [type |-> "ValueError", arg |-> call.fn]
    /\ pc' = "raised"
    /\ UNCHANGED <<config, model, heap, source, reward, n_positions, input_ids, out>>

\* an exception raised by a delegated call leaves init_reward_model as it is
Fail(call, e) ==
    /\ calls' = Append(calls, call)
    /\ raised' = [type |-> e, arg |-> call.fn]
    /\ pc' = "raised"
    /\ UNCHANGED <<config, model, heap, source, reward, n_positions, input_ids, out>>

InitTransformerCall ==
    [fn |-> "init_transformer", config |-> config,
     as_tensordictmodule |-> FALSE, skip_compilation |-> TRUE]

\* lines 49-52: model = init_transformer(config, False, True)
InitTransformer ==
    /\ pc = "start"
    /\ Branch(config.init_reward_from) = "scratch"
    /\ \E w \in Weights, np \in 2..MaxPositions, e \in 1..MaxEmbd :
         \E lw \in LinearWeights(e, VocabSize) :
            /\ heap' = [heap EXCEPT ![1] = Body(w, np, e)]
            /\ source' = LanguageModel(1, lw)
            /\ n_positions' = np
    /\ model' = [kind |-> "ref", to |-> "source"]
    /\ calls' = Append(calls, InitTransformerCall)
    /\ pc' = "construct"
    /\ UNCHANGED <<config, reward, raised, input_ids, out>>

InitTransformerFails ==
    /\ pc = "start"
    /\ Branch(config.init_reward_from) = "scratch"
    /\ Fail(InitTransformerCall, "InitTransformerError")

\* line 53: model = RewardModel(model)
ConstructReward ==
    /\ pc = "construct"
    /\ \E w0 \in LinearWeights(source.lm_head.in_features, 1) :
         LET r == RewardModelInit(source, heap, n_positions, w0) IN
            /\ reward' = r.obj
            /\ heap' = r.heap
    /\ model' = [kind |-> "ref", to |-> "reward"]
    /\ calls' = Append(calls, [fn |-> "RewardModel", model |-> model])
    /\ pc' = "crop"
    /\ UNCHANGED <<config, source, n_positions, raised, input_ids, out>>

FromPretrainedCall ==
    [fn |-> "RewardModel.from_pretrained", path |-> config.out_dir_reward,
     kwargs |-> model_kwargs]

\* lines 54-55: model = RewardModel.from_pretrained(out_dir_reward, **kwargs);
\* the class is instantiated through __init__ and the checkpoint's
\* parameters are then loaded into its own transformer and head
FromPretrained ==
    /\ pc = "start"
    /\ Branch(config.init_reward_from) = "resume"
    /\ \E w \in Weights, cw \in Weights, np \in 2..MaxPositions, e \in 1..MaxEmbd :
         \E lw \in LinearWeights(e, VocabSize), w0 \in LinearWeights(e, 1) :
            LET h1 == [heap EXCEPT ![1] = Body(w, np, e)]
                m == LanguageModel(1, lw)
                r == RewardModelInit(m, h1, np, w0)
            IN /\ source' = m
               /\ reward' = r.obj
               /\ heap' = [r.heap EXCEPT ![r.obj.transformer].w = cw]
               /\ n_positions' = np
    /\ model' = [kind |-> "ref", to |-> "reward"]
    /\ calls' = Append(calls, FromPretrainedCall)
    /\ pc' = "crop"
    /\ UNCHANGED <<config, raised, input_ids, out>>

FromPretrainedFails ==
    /\ pc = "start"
    /\ Branch(config.init_reward_from) = "resume"
    /\ Fail(FromPretrainedCall, "OSError")

\* lines 56-57: raise ValueError(option not recognised)
RaiseUnrecognised ==
    /\ pc = "start"
    /\ Branch(config.init_reward_from) = "error"
    /\ raised' = [type |-> "ValueError", arg |-> config.init_reward_from]
    /\ pc' = "raised"
    /\ UNCHANGED <<config, model, heap, source, reward, n_positions, calls,
                   input_ids, out>>

\* the comparison of line 60 made inclusive
NeedsCropInclusive(block_size, np) == block_size <= np

\* line 60: config["block_size"] < model.config.n_positions
NeedsCrop(block_size, np) == block_size < np

CropCall == [fn |-> "crop_block_size", model |-> model, block_size |-> config.block_size]

\* crop_block_size(model, block_size): the positional table of the model's
\* transformer and config.n_positions are cut down to block_size
crop_block_size(h, a, block_size) == [h EXCEPT ![a].wpe = block_size]

\* lines 60-65: crop down the model block size if desired
Crop ==
    /\ pc = "crop"
    /\ NeedsCrop(config.block_size, n_positions)
    /\ heap' = crop_block_size(heap, reward.transformer, config.block_size)
    /\ n_positions' = config.block_size
    /\ calls' = calls \o <<CropCall, [fn |-> "print_trainable_parameters", model |-> model]>>
    /\ pc' = StepAfter("crop")
    /\ UNCHANGED <<config, model, source, reward, raised, input_ids, out>>

CropFails ==
    /\ pc = "crop"
    /\ NeedsCrop(config.block_size, n_positions)
    /\ Fail(CropCall, "AssertionError")

SkipCrop ==
    /\ pc = "crop"
    /\ ~NeedsCrop(config.block_size, n_positions)
    /\ pc' = StepAfter("crop")
    /\ UNCHANGED <<config, model, heap, source, reward, n_positions, calls,
                   raised, input_ids, out>>

ToCall == [fn |-> "to", model |-> model, device |-> config.device]

\* line 67: model.to(config["device"])
ToDevice ==
    /\ pc = "to"
    /\ reward' = [reward EXCEPT !.device = config.device]
    /\ calls' = Append(calls, ToCall)
    /\ pc' = StepAfter("to")
    /\ UNCHANGED <<config, model, heap, source, n_positions, raised, input_ids, out>>

ToDeviceFails ==
    /\ pc = "to"
    /\ Fail(ToCall, "RuntimeError")

CompileCall == [fn |-> "torch.compile", model |-> model]

\* line 70: model = torch.compile(model)
Compile ==
    /\ pc = "compile"
    /\ model' = [kind |-> "OptimizedModule", orig_mod |-> model]
    /\ calls' = Append(calls, CompileCall)
    /\ pc' = StepAfter("compile")
    /\ UNCHANGED <<config, heap, source, reward, n_positions, raised, input_ids, out>>

CompileFails ==
    /\ pc = "compile"
    /\ Fail(CompileCall, "CompileError")

WrapCall ==
    [fn |-> "TensorDictModule", model |-> model, in_keys |-> <<"input">>,
     out_keys |-> <<"reward">>]

\* lines 72-73: model = TensorDictModule(model, ["input"], ["reward"]); return
Wrap ==
    /\ pc = "wrap"
    /\ model' = [kind |-> "TensorDictModule", module |-> model,
                 in_keys |-> <<"input">>, out_keys |-> <<"reward">>]
    /\ calls' = Append(calls, WrapCall)
    /\ pc' = StepAfter("wrap")
    /\ UNCHANGED <<config, heap, source, reward, n_positions, raised, input_ids, out>>

WrapFails ==
    /\ pc = "wrap"
    /\ Fail(WrapCall, "WrapError")

\* ------------------------------------------------- use of the returned module
\* the returned TensorDictModule reads td["input"], calls the compiled
\* RewardModel on it and writes the result under td["reward"]; scoring does
\* not change the model, so one scoring call per run is followed
Score ==
    /\ pc = "returned"
    /\ out = Null
    /\ \E b \in 1..MaxBatch, n \in 1..MaxSeq : \E ids \in Batches(b, n) :
         /\ input_ids' = ids
         /\ out' = CallModule(reward, source, heap, ids)
    /\ UNCHANGED <<config, pc, model, heap, source, reward, n_positions, calls, raised>>

\* an optimiser step on the RewardModel's own transformer parameters
TrainStep ==
    /\ pc = "returned"
    /\ out = Null
    /\ \E w \in Weights \ {heap[reward.transformer].w} :
         heap' = [heap EXCEPT ![reward.transformer].w = w]
    /\ UNCHANGED <<config, pc, model, source, reward, n_positions, calls, raised,
                   input_ids, out>>

\* the language model the RewardModel was built from is changed afterwards
SourceUpdateBody ==
    /\ pc = "returned"
    /\ out = Null
    /\ \E w \in Weights \ {heap[source.transformer].w} :
         heap' = [heap EXCEPT ![source.transformer].w = w]
    /\ UNCHANGED <<config, pc, model, source, reward, n_positions, calls, raised,
                   input_ids, out>>

SourceUpdateHead ==
    /\ pc = "returned"
    /\ out = Null
    /\ \E lw \in LinearWeights(source.lm_head.in_features, VocabSize) \ {source.lm_head.weight} :
         source' = [source EXCEPT !.lm_head.weight = lw]
    /\ UNCHANGED <<config, pc, model, heap, reward, n_positions, calls, raised,
                   input_ids, out>>

\* init_reward_model and what may happen to the models afterwards
FactoryNext ==
    \/ InitTransformer
    \/ InitTransformerFails
    \/ ConstructReward
    \/ FromPretrained
    \/ FromPretrainedFails
    \/ RaiseUnrecognised
    \/ Crop
    \/ CropFails
    \/ SkipCrop
    \/ ToDevice
    \/ ToDeviceFails
    \/ Compile
    \/ CompileFails
    \/ Wrap
    \/ WrapFails
    \/ TrainStep
    \/ SourceUpdateBody
    \/ SourceUpdateHead

FactorySpec == Init /\ [][FactoryNext]_vars

\* the same, with the returned module being called
Next ==
    \/ InitTransformer
    \/ InitTransformerFails
    \/ ConstructReward
    \/ FromPretrained
    \/ FromPretrainedFails
    \/ RaiseUnrecognised
    \/ Crop
    \/ CropFails
    \/ SkipCrop
    \/ ToDevice
    \/ ToDeviceFails
    \/ Compile
    \/ CompileFails
    \/ Wrap
    \/ WrapFails
    \/ Score
    \/ TrainStep
    \/ SourceUpdateBody
    \/ SourceUpdateHead

Spec == Init /\ [][Next]_vars

\* ------------------------------------------------------------- properties
Recognised == config.init_reward_from \in {"scratch", "resume"}
RefSource == [kind |-> "ref", to |-> "source"]
RefReward == [kind |-> "ref", to |-> "reward"]
Scored == pc = "returned" /\ out # Null
ScoredOk == Scored /\ out.error = "none"
Batch == input_ids.shape[1]
SeqLen == input_ids.shape[2]
CropCalls == {i \in 1..Len(calls) : calls[i].fn = "crop_block_size"}

\* C1: every batch of shape (batch, sequence) scored by the RewardModel /
\* the module returned by init_reward_model yields an output of shape
\* (batch, 1).
C1_OutputShape ==
    ScoredOk => out.value.shape = <<Batch, 1>>

\* C2: with an init_reward_from value other than "scratch" and "resume",
\* init_reward_model can only end by raising the ValueError that names the
\* option, and never holds or returns a module.
C2_UnrecognisedRaises ==
    ~Recognised =>
        /\ pc \in {"start", "raised"}
        /\ pc = "raised" =>
              raised = [type |-> "ValueError", arg |-> config.init_reward_from]
        /\ model = Null

C2_Witness ==
    /\ ~Recognised
    /\ pc = "raised"
    /\ raised.type = "ValueError"
    /\ raised.arg = config.init_reward_from

\* C3: with an unrecognised init_reward_from no construction step is ever
\* performed, neither before nor after the error: no delegated call is made
\* and no model object exists.
C3_NoConstructionOnUnrecognised ==
    ~Recognised =>
        /\ calls = <<>>
        /\ source = Null
        /\ reward = Null
        /\ \A a \in Addr : heap[a] = Null
        /\ n_positions = 0

C3_Witness ==
    /\ config.init_reward_from = "pretrained"
    /\ pc = "raised"
    /\ calls = <<>>
    /\ reward = Null

\* C4: after the context length was cropped to config block_size, scoring a
\* batch whose sequence length is at most block_size completes without error
\* and yields shape (batch, 1).
C4_CroppedScoring ==
    (Scored /\ CropCalls # {} /\ SeqLen <= config.block_size) =>
        /\ out.error = "none"
        /\ out.value.shape = <<Batch, 1>>

\* C5: the reward of each batch row is the single-unit head applied to the
\* RewardModel's transformer hidden state at the last position.
C5_LastTokenReward ==
    ScoredOk =>
        LET hidden == TransformerForward(heap[reward.transformer], input_ids)
            scores == LinearForward(reward.lm_head, hidden)
        IN /\ out.value.shape = <<Batch, 1>>
           /\ \A b \in 1..Batch :
                 out.value.data[b] = <<scores.data[b][SeqLen][1]>>

DelegateError(fn) ==
    CASE fn = "init_transformer" -> "InitTransformerError"
      [] fn = "RewardModel.from_pretrained" -> "OSError"
      [] fn = "crop_block_size" -> "AssertionError"
      [] fn = "to" -> "RuntimeError"
      [] fn = "torch.compile" -> "CompileError"
      [] fn = "TensorDictModule" -> "WrapError"

\* C6: with a recognised init_reward_from, init_reward_model raises no error
\* of its own; when a delegated step fails, its error reaches the caller
\* unchanged, the failing call is the last one made, and no module is
\* returned.
C6_DelegatedErrorsSurface ==
    Recognised =>
        /\ raised.type # "ValueError"
        /\ pc = "raised" =>
              /\ calls # <<>>
              /\ raised.arg = calls[Len(calls)].fn
              /\ raised.type = DelegateError(raised.arg)
              /\ model.kind # "TensorDictModule"
              /\ out = Null

C6_Witness ==
    /\ Recognised
    /\ pc = "raised"
    /\ raised.type = "RuntimeError"
    /\ Len(calls) >= 2

ExpectedCalls ==
    (IF config.init_reward_from = "scratch"
     THEN <<InitTransformerCall, [fn |-> "RewardModel", model |-> RefSource]>>
     ELSE <<FromPretrainedCall>>)
    \o
    (IF config.block_size < reward.block_size
     THEN <<[fn |-> "crop_block_size", model |-> RefReward,
             block_size |-> config.block_size],
            [fn |-> "print_trainable_parameters", model |-> RefReward]>>
     ELSE <<>>)
    \o
    <<[fn |-> "to", model |-> RefReward, device |-> config.device],
      [fn |-> "torch.compile", model |-> RefReward],
      [fn |-> "TensorDictModule",
       model |-> [kind |-> "OptimizedModule", orig_mod |-> RefReward],
       in_keys |-> <<"input">>, out_keys |-> <<"reward">>]>>

\* C7: a successful run performs, each once and in this order: build
\* (scratch: init_transformer with compilation skipped, then RewardModel;
\* resume: from_pretrained), optional crop, device placement, compilation,
\* wrapping with in key "input" and out key "reward"; the returned object
\* wraps the compiled RewardModel.
C7_StepOrder ==
    pc = "returned" =>
        /\ calls = ExpectedCalls
        /\ reward.device = config.device
        /\ model = [kind |-> "TensorDictModule",
                    module |-> [kind |-> "OptimizedModule", orig_mod |-> RefReward],
                    in_keys |-> <<"input">>, out_keys |-> <<"reward">>]

C7_Witness ==
    /\ pc = "returned"
    /\ config.init_reward_from = "scratch"
    /\ CropCalls # {}
    /\ Len(calls) = 7

PastCrop ==
    \/ pc \in {"to", "compile", "wrap", "returned"}
    \/ /\ pc = "raised"
       /\ raised.arg \in {"crop_block_size", "to", "torch.compile", "TensorDictModule"}

\* C8: crop_block_size is called if and only if config block_size is
\* strictly below the model's n_positions, once and with config block_size;
\* otherwise the context length stays what it was, and it is never enlarged.
C8_CropIffSmaller ==
    PastCrop =>
        /\ (CropCalls # {}) <=> (config.block_size < reward.block_size)
        /\ Cardinality(CropCalls) <= 1
        /\ \A i \in CropCalls : calls[i].block_size = config.block_size
        /\ ~(config.block_size < reward.block_size) =>
              /\ heap[reward.transformer].wpe = reward.block_size
              /\ n_positions = reward.block_size

C8_Witness ==
    /\ pc = "returned"
    /\ CropCalls # {}
    /\ config.block_size < reward.block_size
    /\ heap[reward.transformer].wpe = config.block_size

Constructs == reward = Null /\ reward' # Null

\* C9: constructing a RewardModel clones the transformer body and replaces
\* only the head: the source's transformer and lm_head are unchanged, the
\* new head is a bias-free linear layer with the source head's input width
\* and one output unit, and a later change of the RewardModel's transformer
\* never changes the source's transformer.
C9_CloneAndReplaceHead ==
    [][ /\ Constructs =>
            /\ reward'.transformer # source'.transformer
            /\ heap'[source'.transformer].wpe = heap'[reward'.transformer].wpe
            /\ heap'[source'.transformer].n_embd = heap'[reward'.transformer].n_embd
            /\ source # Null =>
                  /\ source' = source
                  /\ heap'[source.transformer] = heap[source.transformer]
                  /\ heap'[reward'.transformer] = heap[source.transformer]
            /\ source'.lm_head.out_features = VocabSize
            /\ reward'.lm_head.bias = FALSE
            /\ reward'.lm_head.in_features = source'.lm_head.in_features
            /\ reward'.lm_head.out_features = 1
            /\ Len(reward'.lm_head.weight) = 1
            /\ Len(reward'.lm_head.weight[1]) = source'.lm_head.in_features
        /\ (reward # Null /\ heap'[reward.transformer] # heap[reward.transformer]) =>
              /\ source' = source
              /\ heap'[source.transformer] = heap[source.transformer]
      ]_vars

C9_Witness ==
    /\ pc = "returned"
    /\ config.init_reward_from = "scratch"
    /\ reward.transformer # source.transformer
    /\ heap[reward.transformer].w # heap[source.transformer].w
    /\ Len(calls) = 5

\* C10: the reward depends only on the RewardModel's own transformer and
\* head: with another lm_head in the source model, or with the source
\* model's transformer weights changed, the same input gets the same output;
\* the forward that runs on the instance is RewardModel.forward.
C10_OwnParametersOnly ==
    Scored =>
        /\ GetForward(reward, "reward") = [cls |-> "RewardModel", self |-> "reward"]
        /\ \A lw \in LinearWeights(source.lm_head.in_features, VocabSize) :
              CallModule(reward, [source EXCEPT !.lm_head.weight = lw], heap,
                         input_ids) = out
        /\ \A w \in Weights :
              CallModule(reward, source,
                         [heap EXCEPT ![source.transformer].w = w], input_ids) = out
====
